---- MODULE Spec2Model ----
(***************************************************************************)
(* Process lifecycle and session manager of the Minecraft panel            *)
(* (src/server.js, current revision: lines 1-352).                         *)
(*                                                                         *)
(* The Node event loop runs one handler at a time, so every socket         *)
(* handler, every timer callback and every 'close' event of a child        *)
(* process is one atomic action.  Time is kept as the remaining delay of   *)
(* each armed timer; Tick lets time pass but never past a deadline.        *)
(* The 'close' event of a child process is the observation of its exit.    *)
(* The async handlers of the instance requests run from await to await:    *)
(* each stretch is one action, and a handler suspended at an await is a    *)
(* task.  runCommand is modelled with the promise it returns.              *)
(* The shell of a cleanup sweep runs as a step of its own, any time after  *)
(* the exec that started it.  The page of an observer (public/script.js)   *)
(* processes the events of a handler run in the step that emits them.      *)
(* isValidPath, getJdkPackage, parseProperties and serializeProperties     *)
(* are functions of their arguments and are studied one call at a time.    *)
(***************************************************************************)
EXTENDS Integers, Sequences, FiniteSets, TLC

\* ---------------------------------------------------------------- bounds
MaxProcs == 2          \* child processes spawned in one behaviour
MaxWrites == 2         \* writes attempted on the stdin of one process
NumObservers == 2      \* connected sockets
MaxRequests == 1       \* connections and instance requests in one behaviour
MaxJobs == 1           \* commands run by runCommand in one behaviour
MaxDepth == 2          \* segments of a path given to isValidPath
MaxParts == 3          \* dot-separated parts of a version name
MaxProps == 2          \* properties of a server.properties object

\* ------------------------------------------------------------- constants
TermDelay == 10000     \* ms, first grace period
KillDelay == 18000     \* ms, first plus second grace period
RestartDelay == 1000   \* ms, post-exit delay of a restart

Quantum == TermDelay \div 2          \* step of the clock between deadlines

Observers == 1..NumObservers
ServerNames == {"survival", "creative"}   \* the instances on disk
Requested == ServerNames \cup {"lost"}     \* names a start request may carry
InstanceNames == {"survival", "lost"}      \* names an instance request may carry
RenamePairs == {<<"survival", "lost">>, <<"lost", "survival">>}   \* old and new name
Commands == {"list", "say hi"}
ExitCodes == {0, 1}
Chunks == {"Done (12.345s)!", "STDERR: Done (12.345s)!"}   \* what a child may print
Streams == {"stdout", "stderr"}

\* how the operating system answers spawn(): a running child, or a handle
\* that emits 'error' (ENOENT, EACCES, EAGAIN ...)
SpawnOutcomes == {"ok", "error"}
\* how stdin.write() ends: written, an exception thrown by the call, or an
\* 'error' event of the stream (EPIPE)
WriteOutcomes == {"ok", "throw", "error"}
WriteFaults == {"write-throw", "write-error"}
ErrorMessage == "write EPIPE"      \* e.message of a failed write

\* what server-meta.json of the two instances on disk records
InitialMeta == [n \in ServerNames |-> IF n = "survival" THEN "paper" ELSE "vanilla"]
ServerTypes == {"paper"}           \* serverType of a create request
\* how an awaited filesystem operation or installer ends
FsOutcomes == {"ok", "fail"}
FsMessage == "EACCES: permission denied"   \* e.message of a failed operation

\* what runCommand is called with: a download and the run of an installer
InstallerCommand ==
    [command |-> "nix-shell -p pkgs.jdk17 --run \"java -jar installer.jar\"", args |-> <<>>]
RunCommands ==
    {[command |-> "curl", args |-> <<"-fL", "-o", "server.jar", "https://example.org/server.jar">>],
     InstallerCommand,
     [command |-> "curl", args |-> <<"-fL">>]}
OutputEvents == {"creation-status", "plugin-install-log"}
SpawnFailedCode == -2              \* code of 'close' after a failed spawn: -ENOENT
SpawnErrorMessage == "spawn /bin/sh ENOENT"

NoProc == 0                        \* scriptProcess = null
NullDir == "<null>"                \* activeServerDir = null
NoCallback == [fn |-> "null", dir |-> NullDir]   \* onStopCallback = null
Broadcast == Observers             \* io.emit: the event goes to every socket

VARIABLES
    hostUp,            \* the Node process of the panel is running
    fault,             \* the failure the last handler met, or ""
    scriptProcess,     \* pid of the child process held by the session, or NoProc
    activeServerDir,   \* name of the active instance, or NullDir
    onStopCallback,    \* the queued stop callback, or NoCallback
    timers,            \* armed timers, in the order they were armed
    procs,             \* child processes whose 'close' was not yet emitted
    spawned,           \* number of child processes spawned so far
    existing,          \* instances on disk: directories holding start.sh and server-meta.json
    dirs,              \* directories on disk, the unfinished ones of a creation included
    meta,              \* per instance: the type recorded in its server-meta.json
    tasks,             \* per request: its handler suspended at an await
    requests,          \* number of instance requests and connections handled so far
    jobs,              \* the commands runCommand has spawned, each with its promise
    exitRuns,          \* per pid: how often the exit handler ran for it
    emitted,           \* events emitted by the last handler
    execed,            \* shell commands exec'ed by the last handler
    sweeps,            \* cleanup sweeps exec'ed and not yet run, each with the pid whose exit launched it
    swept,             \* the processes a cleanup sweep has killed, each with the pid of that exit
    activeServer,      \* per observer: the activeServer of its page, or NoPage
    call,              \* the call of a helper function under study: name, arguments, result
    lastOp             \* the last handler that ran

vars == <<hostUp, fault, scriptProcess, activeServerDir, onStopCallback, timers,
          procs, spawned, existing, dirs, meta, tasks, requests, jobs, exitRuns,
          emitted, execed, sweeps, swept, activeServer, call, lastOp>>

\* ------------------------------------------------------------- messages
\* io.emit(name, data)
Ev(name, data) == [ev |-> name, data |-> data, to |-> Broadcast]

AlreadyRunningText == "A server is already running.\n"
NoScriptText(serverDir) == "ERROR: start.sh not found for server '" \o serverDir \o "'.\n"
GracefulText == "\n--- Attempting graceful shutdown with \"stop\" command... ---\n"
SigtermText == "\n--- Graceful shutdown timed out. Sending SIGTERM... ---\n"
SigkillText == "\n--- SIGTERM timed out. Sending SIGKILL... ---\n"
CodeText(code) == CASE code = 0 -> "0" [] code = 1 -> "1" [] code = -2 -> "-2" [] OTHER -> "?"
ExitText(code) == "\n--- Server process exited with code: " \o CodeText(code) \o " ---\n"
SweepCommand == "killall -q -9 java; pkill -9 -f \"playit-linux-amd64\""
CouldNotWriteText == "\n--- Could not write to stdin: " \o ErrorMessage \o " ---\n"
StdoutText(chunk) == chunk
StderrText(chunk) == "STDERR: " \o chunk

\* socket.emit(name, data): the event goes to the one socket of the handler
EvTo(o, name, data) == [ev |-> name, data |-> data, to |-> {o}]

CannotDeleteText == "Cannot delete a running or non-existent server."
DeletedText(serverName) == "Server '" \o serverName \o "' deleted."
ErrorDeletingText == "Error deleting: " \o FsMessage
InvalidRenameText == "Invalid request for rename."
RenamedText(oldName, newName) == "Renamed '" \o oldName \o "' to '" \o newName \o "'."
ErrorRenamingText == "Error renaming: " \o FsMessage
CreatingText(serverName) == "Creating server directory for '" \o serverName \o "'...\n"
SuccessText(serverName) == "\nSUCCESS: Server '" \o serverName \o "' created successfully!"
AlreadyExistsMessage(serverName) == "Directory '" \o serverName \o "' already exists."
FatalText(message) ==
    "\n--- FATAL ERROR ---\n" \o message \o "\nCleaning up failed directory...\n"

StopLine == "stop\n"
\* variant: the newline is forgotten
CommandLineRaw(cmd) == cmd

CommandLine(cmd) == cmd \o "\n"

\* ------------------------------------------------------------ observers
\* public/script.js: the page of an observer keeps the active instance in
\* activeServer; three socket handlers assign it
NoPage == "<closed>"               \* the observer has no page open

\* variant: the script-stopped handler leaves activeServer as it is
onEventKeepOnStop(view, e) ==
    CASE e.ev = "existing-servers" -> e.data.activeServer
      [] e.ev = "script-started" -> e.data
      [] OTHER -> view

onEvent(view, e) ==
    CASE e.ev = "existing-servers" -> e.data.activeServer
      [] e.ev = "script-started" -> e.data
      [] e.ev = "script-stopped" -> NullDir
      [] OTHER -> view

\* the events of one handler run, processed in order by the page of observer o
RECURSIVE Process(_, _, _)
Process(view, o, events) ==
    IF events = <<>> THEN view
    ELSE Process(IF view # NoPage /\ o \in Head(events).to THEN onEvent(view, Head(events))
                 ELSE view,
                 o, Tail(events))

NoCall == [fn |-> "", args |-> <<>>, result |-> "", done |-> FALSE]

\* ---------------------------------------------------------------- state
\* The program state as one record, so that a handler is a function on it.
\* spawnOutcome and writeOutcome are the answers the operating system gives to
\* the handler that runs on it.
State == [scriptProcess |-> scriptProcess, activeServerDir |-> activeServerDir,
          onStopCallback |-> onStopCallback, timers |-> timers, procs |-> procs,
          spawned |-> spawned, exitRuns |-> exitRuns,
          existing |-> existing, dirs |-> dirs, meta |-> meta,
          tasks |-> tasks, requests |-> requests, jobs |-> jobs,
          sweeps |-> sweeps, swept |-> swept, activeServer |-> activeServer,
          emitted |-> <<>>, execed |-> <<>>,
          hostUp |-> hostUp, fault |-> "", spawnOutcome |-> "ok", writeOutcome |-> "ok"]

WithSpawn(s, outcome) == [s EXCEPT !.spawnOutcome = outcome]
WithWrite(s, outcome) == [s EXCEPT !.writeOutcome = outcome]

Becomes(s) ==
    /\ hostUp' = s.hostUp
    /\ fault' = s.fault
    /\ scriptProcess' = s.scriptProcess
    /\ activeServerDir' = s.activeServerDir
    /\ onStopCallback' = s.onStopCallback
    /\ timers' = s.timers
    /\ procs' = s.procs
    /\ spawned' = s.spawned
    /\ exitRuns' = s.exitRuns
    /\ existing' = s.existing
    /\ dirs' = s.dirs
    /\ meta' = s.meta
    /\ tasks' = s.tasks
    /\ requests' = s.requests
    /\ jobs' = s.jobs
    /\ emitted' = s.emitted
    /\ execed' = s.execed
    /\ sweeps' = s.sweeps
    /\ swept' = s.swept
    /\ activeServer' = [o \in Observers |-> Process(s.activeServer[o], o, s.emitted)]
    /\ call' = call

Emit(s, name, data) == [s EXCEPT !.emitted = Append(@, Ev(name, data))]

\* stream.write(text) on the stdin of process p; a failed write leaves nothing
\* in the pipe
StdinWrite(s, p, text) ==
    IF s.writeOutcome = "ok"
    THEN [s EXCEPT !.procs[p].stdin = Append(@, text)]
    ELSE [s EXCEPT !.fault = "write-" \o s.writeOutcome]

\* an exception nobody catches, or an 'error' event nobody listens to, ends
\* the Node process (there is no process.on('uncaughtException')): the
\* session, its timers, its handles and its suspended handlers are gone with it
Uncaught(s) ==
    [s EXCEPT !.hostUp = FALSE,
              !.scriptProcess = NoProc, !.activeServerDir = NullDir,
              !.onStopCallback = NoCallback, !.timers = <<>>, !.procs = <<>>,
              !.spawned = 0, !.exitRuns = [p \in DOMAIN @ |-> 0],
              !.tasks = <<>>, !.requests = 0, !.jobs = <<>>, !.sweeps = <<>>]

\* the 'error' event of a child or of its stdin is emitted once the running
\* handler has returned; neither has an 'error' listener
ErrorEvent(s) == IF s.fault \in {"spawn-error", "write-error"} THEN Uncaught(s) ELSE s

\* variant: both timer callbacks send SIGTERM
KillTermOnly(s, p, sig) == [s EXCEPT !.procs[p].signals = Append(@, "SIGTERM")]

\* child.kill(sig) on process p
Kill(s, p, sig) == [s EXCEPT !.procs[p].signals = Append(@, sig)]

ExitListener == [kind |-> "exit", k |-> 0]
\* variant: the stop path registers the exit handling a second time
ClearListenerAsExit(k) == [kind |-> "exit", k |-> k]

ClearListener(k) == [kind |-> "clear", k |-> k]

\* variant: the child is spawned without the cwd option
NewProcessNoCwd(serverDir) ==
    [dir |-> serverDir, cwd |-> ".", stdin |-> <<>>, signals |-> <<>>,
     listeners |-> <<>>, stops |-> 0, cmds |-> 0]

\* spawn('bash', [script], {cwd}): a new child with its stdio pipes
NewProcess(serverDir) ==
    [dir |-> serverDir, cwd |-> serverDir, stdin |-> <<>>, signals |-> <<>>,
     listeners |-> <<>>, stops |-> 0, cmds |-> 0]

Timer(kind, delay, owner, dir) ==
    [kind |-> kind, rem |-> delay, owner |-> owner, dir |-> dir]

\* -------------------------------------------------- startScriptProcess
\* variant: the single-process guard is missing
AlreadyRunningNever(s) == FALSE

AlreadyRunning(s) == s.scriptProcess # NoProc

\* variant: the existence check is missing
ScriptExistsAlways(serverDir) == TRUE

\* fs.existsSync(script)
ScriptExists(serverDir) == serverDir \in existing

\* spawn() returns a handle whether or not the operating system started the
\* child; a handle without a child emits 'error'
Spawn(s, serverDir) ==
    LET p == s.spawned + 1 IN
    [s EXCEPT !.scriptProcess = p,
              !.spawned = p,
              !.procs = (p :> NewProcess(serverDir)) @@ @,
              !.fault = IF s.spawnOutcome = "ok" THEN @ ELSE "spawn-error"]

AddListener(s, p, l) == [s EXCEPT !.procs[p].listeners = Append(@, l)]

\* variant: the active name is recorded before the guards
startScriptProcessMarkFirst(s, serverDir) ==
    LET s1 == [s EXCEPT !.activeServerDir = serverDir] IN
    IF AlreadyRunning(s)
    THEN Emit(s1, "terminal-output", AlreadyRunningText)
    ELSE IF ~ScriptExists(serverDir)
    THEN Emit(s1, "terminal-output", NoScriptText(serverDir))
    ELSE LET s2 == Spawn(s1, serverDir)
             s3 == Emit(s2, "script-started", serverDir)
         IN  ErrorEvent(AddListener(s3, s3.scriptProcess, ExitListener))

startScriptProcess(s, serverDir) ==
    IF AlreadyRunning(s)
    THEN Emit(s, "terminal-output", AlreadyRunningText)
    ELSE IF ~ScriptExists(serverDir)
    THEN Emit(s, "terminal-output", NoScriptText(serverDir))
    ELSE LET s1 == [s EXCEPT !.activeServerDir = serverDir]
             s2 == Spawn(s1, serverDir)
             s3 == Emit(s2, "script-started", serverDir)
         IN  ErrorEvent(AddListener(s3, s3.scriptProcess, ExitListener))

\* --------------------------------------------------- stopServerProcess
\* the callback restart-script passes: () => setTimeout(() => startScriptProcess(dir), 1000)
RestartCallback(dir) == [fn |-> "restart", dir |-> dir]

InvokeCallback(s, cb) ==
    [s EXCEPT !.timers = Append(@, Timer("start", RestartDelay, <<0, 0>>, cb.dir))]

QueueCallback(s, cb) == [s EXCEPT !.onStopCallback = cb]

\* variant: the two delays are swapped
ArmEscalationSwapped(s, p, k) ==
    [s EXCEPT !.timers = @ \o <<Timer("term", KillDelay, <<p, k>>, NullDir),
                                Timer("kill", TermDelay, <<p, k>>, NullDir)>>]

ArmEscalation(s, p, k) ==
    [s EXCEPT !.timers = @ \o <<Timer("term", TermDelay, <<p, k>>, NullDir),
                                Timer("kill", KillDelay, <<p, k>>, NullDir)>>]

\* variant: the shutdown notice is emitted before the idle check
stopIdleAnnounce(s, cb) ==
    Emit(IF cb # NoCallback THEN InvokeCallback(s, cb) ELSE s, "terminal-output", GracefulText)

\* stopServerProcess when no process is held
stopIdle(s, cb) == IF cb # NoCallback THEN InvokeCallback(s, cb) ELSE s

\* try { scriptProcess.stdin.write('stop\n') } catch (e) { io.emit(...) }
TryStopLine(s, p) ==
    LET s1 == StdinWrite(s, p, StopLine) IN
    IF s1.fault = "write-throw" THEN Emit(s1, "terminal-output", CouldNotWriteText) ELSE s1

\* variant: a stop without callback empties the callback slot
stopActiveOverwrite(s, cb) ==
    LET p == s.scriptProcess
        k == s.procs[p].stops + 1
        s1 == QueueCallback(s, cb)
        s2 == Emit(s1, "terminal-output", GracefulText)
        s3 == TryStopLine(s2, p)
        s4 == ArmEscalation(s3, p, k)
        s5 == AddListener(s4, p, ClearListener(k))
    IN  ErrorEvent([s5 EXCEPT !.procs[p].stops = k])

\* stopServerProcess when a process is held; this is its k-th stop
stopActive(s, cb) ==
    LET p == s.scriptProcess
        k == s.procs[p].stops + 1
        s1 == IF cb # NoCallback THEN QueueCallback(s, cb) ELSE s
        s2 == Emit(s1, "terminal-output", GracefulText)
        s3 == TryStopLine(s2, p)
        s4 == ArmEscalation(s3, p, k)
        s5 == AddListener(s4, p, ClearListener(k))
    IN  ErrorEvent([s5 EXCEPT !.procs[p].stops = k])

stopServerProcess(s, cb) ==
    IF s.scriptProcess = NoProc THEN stopIdle(s, cb) ELSE stopActive(s, cb)

\* the two timer callbacks of stopServerProcess
termTimeout(s) ==
    IF s.scriptProcess # NoProc
    THEN Kill(Emit(s, "terminal-output", SigtermText), s.scriptProcess, "SIGTERM")
    ELSE s

\* variant: the SIGKILL callback clears the session itself
killTimeoutClears(s) ==
    IF s.scriptProcess # NoProc
    THEN [Kill(Emit(s, "terminal-output", SigkillText), s.scriptProcess, "SIGKILL")
             EXCEPT !.activeServerDir = NullDir, !.scriptProcess = NoProc]
    ELSE s

killTimeout(s) ==
    IF s.scriptProcess # NoProc
    THEN Kill(Emit(s, "terminal-output", SigkillText), s.scriptProcess, "SIGKILL")
    ELSE s

\* ------------------------------------------------------ 'close' event
\* variant: the timers are not cleared at exit
ClearTimeoutsNone(s, p, k) == s

\* variant: only the SIGKILL timer is cleared at exit
ClearTimeoutsKillOnly(s, p, k) ==
    LET Keep(t) == ~(t.kind = "kill" /\ t.owner = <<p, k>>)
    IN  [s EXCEPT !.timers = SelectSeq(@, Keep)]

\* the listener stopServerProcess registers with scriptProcess.once('close')
ClearTimeouts(s, p, k) ==
    LET Keep(t) == ~(t.kind \in {"term", "kill"} /\ t.owner = <<p, k>>)
    IN  [s EXCEPT !.timers = SelectSeq(@, Keep)]

\* variant: the active name is left in place at exit
ClearSessionHandleOnly(s) == [s EXCEPT !.scriptProcess = NoProc]

ClearSession(s) == [s EXCEPT !.activeServerDir = NullDir, !.scriptProcess = NoProc]

\* variant: the callback is invoked but the slot is not cleared
FlushCallbackKeep(s) ==
    IF s.onStopCallback # NoCallback THEN InvokeCallback(s, s.onStopCallback) ELSE s

FlushCallback(s) ==
    IF s.onStopCallback # NoCallback
    THEN [InvokeCallback(s, s.onStopCallback) EXCEPT !.onStopCallback = NoCallback]
    ELSE s

\* variant: an exit with a non-zero code is an error state of its own: the
\* queued callback is dropped and no stop is announced
ExitHandlerCrash(s, p, code) ==
    LET s1 == IF code = 0 THEN Emit(s, "script-stopped", "") ELSE Emit(s, "script-crashed", "")
        s2 == Emit(s1, "terminal-output", ExitText(code))
        s3 == [s2 EXCEPT !.execed = Append(@, SweepCommand),
                         !.sweeps = Append(@, p),
                         !.exitRuns[p] = @ + 1]
    IN  IF code = 0 THEN FlushCallback(ClearSession(s3))
        ELSE [ClearSession(s3) EXCEPT !.onStopCallback = NoCallback]

\* the listener startScriptProcess registers with scriptProcess.on('close')
ExitHandler(s, p, code) ==
    LET s1 == Emit(s, "script-stopped", "")
        s2 == Emit(s1, "terminal-output", ExitText(code))
        s3 == [s2 EXCEPT !.execed = Append(@, SweepCommand),
                         !.sweeps = Append(@, p),
                         !.exitRuns[p] = @ + 1]
    IN  FlushCallback(ClearSession(s3))

\* variant: the listeners the stop requests registered are not run
RunListenerExitOnly(s, p, l, code) ==
    IF l.kind = "exit" THEN ExitHandler(s, p, code) ELSE s

RunListener(s, p, l, code) ==
    IF l.kind = "exit" THEN ExitHandler(s, p, code) ELSE ClearTimeouts(s, p, l.k)

\* emit('close', code): the listeners run in the order they were registered
RECURSIVE RunListeners(_, _, _, _)
RunListeners(s, p, ls, code) ==
    IF ls = <<>> THEN s
    ELSE RunListeners(RunListener(s, p, Head(ls), code), p, Tail(ls), code)

\* variant: the exit handling runs at the child's 'exit' event, when the
\* stdio pipes of the child may still be open
EmitCloseOnExit(s, p, code) == RunListeners(s, p, s.procs[p].listeners, code)

EmitClose(s, p, code) ==
    LET s1 == RunListeners(s, p, s.procs[p].listeners, code)
    IN  [s1 EXCEPT !.procs = [q \in (DOMAIN @) \ {p} |-> @[q]]]

\* ------------------------------------------------- instance management
\* The handlers of create-server, delete-server and rename-server and
\* refreshServers are async functions: each runs up to its next await as one
\* step and is resumed, as a later step, when the awaited operation has
\* ended.  A suspended handler is a task; the awaited operation takes effect
\* on disk in the step that resumes the handler.
EmitTo(s, o, name, data) == [s EXCEPT !.emitted = Append(@, EvTo(o, name, data))]

\* kind and stage say where the handler is suspended; seen is the active
\* name at the call of refreshServers, servers the list it has read
Task(kind, stage, o, name, other) ==
    [kind |-> kind, stage |-> stage, o |-> o, name |-> name, other |-> other,
     seen |-> NullDir, servers |-> {}]

Suspend(s, id, t) == [s EXCEPT !.tasks = (id :> t) @@ @]
Finish(s, id) == [s EXCEPT !.tasks = [q \in (DOMAIN @) \ {id} |-> @[q]]]

\* rimraf(dir), fsp.rename(old, new), the end of a creation: their effect on disk
Remove(s, name) ==
    [s EXCEPT !.dirs = @ \ {name}, !.existing = @ \ {name},
              !.meta = [n \in (DOMAIN @) \ {name} |-> @[n]]]

Move(s, oldName, newName) ==
    IF oldName \in s.existing
    THEN [s EXCEPT !.dirs = (@ \ {oldName}) \cup {newName},
                   !.existing = (@ \ {oldName}) \cup {newName},
                   !.meta = [n \in ((DOMAIN @) \ {oldName}) \cup {newName} |->
                                IF n = newName THEN @[oldName] ELSE @[n]]]
    ELSE [s EXCEPT !.dirs = (@ \ {oldName}) \cup {newName}]

Install(s, name, type) ==
    [s EXCEPT !.dirs = @ \cup {name}, !.existing = @ \cup {name},
              !.meta = (name :> type) @@ @]

\* getExistingServers(): the directories that hold a server-meta.json
getExistingServers(s) == s.existing

\* getExistingServerMeta(): the type of each of them
getExistingServerMeta(s) == [n \in s.existing |-> s.meta[n]]

\* refreshServers(), up to its first await
refreshServers(s, id, o) ==
    Suspend(s, id, [Task("refresh", "list", o, "", "") EXCEPT !.seen = s.activeServerDir])

\* const servers = await getExistingServers()
refreshList(s, id) ==
    [s EXCEPT !.tasks[id].stage = "meta", !.tasks[id].servers = getExistingServers(s)]

\* variant: the active name is the one read when refreshServers was called
refreshEmitEarly(s, id) ==
    Finish(Emit(s, "existing-servers",
                [servers |-> s.tasks[id].servers, activeServer |-> s.tasks[id].seen,
                 serverMeta |-> getExistingServerMeta(s)]), id)

\* const serverMeta = await getExistingServerMeta(); io.emit('existing-servers', ...)
refreshEmit(s, id) ==
    Finish(Emit(s, "existing-servers",
                [servers |-> s.tasks[id].servers, activeServer |-> s.activeServerDir,
                 serverMeta |-> getExistingServerMeta(s)]), id)

\* socket.on('delete-server', ...), up to await rimraf(...)
deleteServer(s, id, o, serverName) ==
    IF serverName = "" \/ s.activeServerDir = serverName
    THEN EmitTo(s, o, "server-action-error", CannotDeleteText)
    ELSE Suspend(s, id, Task("delete", "rimraf", o, serverName, ""))

\* rimraf has ended: the rest of the delete-server handler
deleteDone(s, id, outcome) ==
    LET t == s.tasks[id] IN
    IF outcome = "ok"
    THEN refreshServers(EmitTo(Remove(s, t.name), t.o, "server-action-success",
                               DeletedText(t.name)), id, t.o)
    ELSE Finish(EmitTo(s, t.o, "server-action-error", ErrorDeletingText), id)

\* socket.on('rename-server', ...), up to await fsp.rename(...)
renameServer(s, id, o, oldName, newName) ==
    IF oldName = "" \/ newName = "" \/ s.activeServerDir = oldName \/ newName \in s.dirs
    THEN EmitTo(s, o, "server-action-error", InvalidRenameText)
    ELSE Suspend(s, id, Task("rename", "rename", o, oldName, newName))

\* fsp.rename has ended; it fails when the source is gone or the target is
\* a directory with entries
renameDone(s, id, outcome) ==
    LET t == s.tasks[id] IN
    IF outcome = "ok" /\ t.name \in s.dirs /\ t.other \notin s.dirs
    THEN refreshServers(EmitTo(Move(s, t.name, t.other), t.o, "server-action-success",
                               RenamedText(t.name, t.other)), id, t.o)
    ELSE Finish(EmitTo(s, t.o, "server-action-error", ErrorRenamingText), id)

\* the catch block of create-server, up to await rimraf(serverDir)
createCatch(s, id, o, serverName, message) ==
    Suspend(EmitTo(s, o, "creation-status", FatalText(message)), id,
            Task("create", "cleanup", o, serverName, ""))

\* socket.on('create-server', ...), up to its first await
createServer(s, id, o, serverName, serverType) ==
    IF serverName = "" \/ serverType = ""
    THEN EmitTo(s, o, "creation-status", "\n--- Invalid creation data. ---\n")
    ELSE IF serverName \in s.dirs
    THEN createCatch(s, id, o, serverName, AlreadyExistsMessage(serverName))
    ELSE Suspend(EmitTo(s, o, "creation-status", CreatingText(serverName)), id,
                 Task("create", "mkdir", o, serverName, serverType))

\* fsp.mkdir(serverDir, {recursive: true}) has ended: the installer is called
createMkdir(s, id) ==
    [s EXCEPT !.dirs = @ \cup {s.tasks[id].name}, !.tasks[id].stage = "install"]

\* the installer and the writes of eula.txt, start.sh and server-meta.json
\* have ended (the model reads nothing of the state between these awaits)
createInstall(s, id, outcome) ==
    LET t == s.tasks[id] IN
    IF outcome = "ok"
    THEN refreshServers(EmitTo(Install(s, t.name, t.other), t.o, "creation-status",
                               SuccessText(t.name)), id, t.o)
    ELSE createCatch(s, id, t.o, t.name, FsMessage)

\* await rimraf(serverDir).catch(...) of the catch block has ended
createCleanup(s, id) == refreshServers(Remove(s, s.tasks[id].name), id, s.tasks[id].o)

\* the awaited operations that may fail: rimraf of a delete request and the
\* installer; mkdir, the reads of refreshServers and the rimraf of a cleanup
\* are taken to succeed
Fallible(t) == t.kind = "delete" \/ (t.kind = "create" /\ t.stage = "install")

\* the awaited operation of task id has ended: its handler runs on
Resume(s, id, outcome) ==
    LET t == s.tasks[id] IN
    CASE t.kind = "refresh" /\ t.stage = "list" -> refreshList(s, id)
      [] t.kind = "refresh" /\ t.stage = "meta" -> refreshEmit(s, id)
      [] t.kind = "delete" -> deleteDone(s, id, outcome)
      [] t.kind = "rename" -> renameDone(s, id, outcome)
      [] t.kind = "create" /\ t.stage = "mkdir" -> createMkdir(s, id)
      [] t.kind = "create" /\ t.stage = "install" -> createInstall(s, id, outcome)
      [] OTHER -> createCleanup(s, id)

\* ----------------------------------------------------------- runCommand
\* args.join(' ')
RECURSIVE Join(_)
Join(args) ==
    IF args = <<>> THEN ""
    ELSE IF Len(args) = 1 THEN args[1]
    ELSE args[1] \o " " \o Join(Tail(args))

FailedMessage(code, cmd) ==
    "Command failed with code " \o CodeText(code) \o ": " \o cmd.command \o " " \o Join(cmd.args)

Pending == [state |-> "pending", value |-> ""]
Resolved == [state |-> "resolved", value |-> ""]
Rejected(message) == [state |-> "rejected", value |-> message]

\* variant: a later call of resolve or reject replaces the outcome
SettleLast(promise, outcome) == outcome

\* resolve() and reject() of a promise: the first call settles it, later
\* calls do nothing
Settle(promise, outcome) == IF promise.state = "pending" THEN outcome ELSE promise

\* new Promise(...): spawn(command, args, {cwd, shell: true}) and the four
\* listeners; events counts the 'error' and 'close' events emitted so far
runCommand(s, o, cmd, outputEvent) ==
    [s EXCEPT !.jobs = Append(@, [o |-> o, cmd |-> cmd, outputEvent |-> outputEvent,
                                   spawn |-> s.spawnOutcome, errored |-> FALSE,
                                   closed |-> FALSE, code |-> 0, promise |-> Pending])]

\* proc.stdout.on('data', ...) and proc.stderr.on('data', ...)
jobData(s, j, stream, chunk) == EmitTo(s, s.jobs[j].o, s.jobs[j].outputEvent, chunk)

\* proc.on('error', (err) => reject(err))
jobError(s, j) ==
    [s EXCEPT !.jobs[j].errored = TRUE,
              !.jobs[j].promise = Settle(@, Rejected(SpawnErrorMessage))]

\* proc.on('close', (code) => { if (code === 0) resolve(); else reject(new Error(...)); })
jobClose(s, j, code) ==
    [s EXCEPT !.jobs[j].closed = TRUE,
              !.jobs[j].code = code,
              !.jobs[j].promise =
                  Settle(@, IF code = 0 THEN Resolved
                            ELSE Rejected(FailedMessage(code, s.jobs[j].cmd)))]

\* ----------------------------------------------------------- actions
NoFinal == NewProcess(NullDir)

\* the timers armed by the stop requests that reached process p
TimersOf(ts, p) ==
    LET Mine(t) == t.kind \in {"term", "kill"} /\ t.owner[1] = p
    IN  SelectSeq(ts, Mine)

\* the handler that ran: its name and input; for 'close', the process as it
\* ended and the escalation timers that were pending for it
NoTask == Task("", "", 0, "", "")

\* for 'close', the process as it ended and the escalation timers that were
\* pending for it; for an instance request, the request; for a resumed
\* handler, the task it was resumed from
Op(name, arg, pid, code) ==
    [op |-> name, arg |-> arg, pid |-> pid, code |-> code, final |-> NoFinal,
     pending |-> <<>>, task |-> NoTask]

\* writes are counted as attempted: stop lines and command lines
WithinBounds(s) ==
    /\ s.spawned <= MaxProcs
    /\ s.requests <= MaxRequests
    /\ Len(s.jobs) <= MaxJobs
    /\ \A p \in DOMAIN s.procs : s.procs[p].stops + s.procs[p].cmds <= MaxWrites

\* a handler runs only while the Node process is up
Handle(s) == hostUp /\ WithinBounds(s) /\ Becomes(s)

\* The four session handlers are registered on every socket and use nothing
\* of the socket they are registered on: a request is the same step whoever
\* sends it.
\* socket.on('start-script', ({ serverDir }) => startScriptProcess(serverDir))
StartScript(serverDir) ==
    /\ \E outcome \in SpawnOutcomes :
           Handle(startScriptProcess(WithSpawn(State, outcome), serverDir))
    /\ lastOp' = Op("start-script", "", scriptProcess, 0)

\* socket.on('stop-script', () => stopServerProcess())
StopScript ==
    /\ \E outcome \in WriteOutcomes :
           Handle(stopServerProcess(WithWrite(State, outcome), NoCallback))
    /\ lastOp' = Op("stop-script", "", scriptProcess, 0)

\* variant: the handler does not check that an instance is active
restartScriptNoGuard(s) == stopServerProcess(s, RestartCallback(s.activeServerDir))

\* socket.on('restart-script', ...)
restartScript(s) ==
    IF s.activeServerDir = NullDir THEN s
    ELSE stopServerProcess(s, RestartCallback(s.activeServerDir))

RestartScript ==
    /\ \E outcome \in WriteOutcomes : Handle(restartScript(WithWrite(State, outcome)))
    /\ lastOp' = Op("restart-script", "", scriptProcess, 0)

\* socket.on('terminal-command', (cmd) => { if (scriptProcess) scriptProcess.stdin.write(cmd + '\n'); })
\* the write is not guarded: an exception it throws leaves the handler
terminalCommand(s, cmd) ==
    IF s.scriptProcess # NoProc
    THEN LET s1 == [StdinWrite(s, s.scriptProcess, CommandLine(cmd))
                       EXCEPT !.procs[s.scriptProcess].cmds = @ + 1]
         IN  IF s1.fault # "" THEN Uncaught(s1) ELSE s1
    ELSE s

TerminalCommand(cmd) ==
    /\ \E outcome \in WriteOutcomes : Handle(terminalCommand(WithWrite(State, outcome), cmd))
    /\ lastOp' = Op("terminal-command", cmd, scriptProcess, 0)

\* scriptProcess.stdout.on('data', ...) and scriptProcess.stderr.on('data', ...)
dataListener(s, stream, chunk) ==
    IF stream = "stdout"
    THEN Emit(s, "terminal-output", StdoutText(chunk))
    ELSE Emit(s, "terminal-output", StderrText(chunk))

\* the child process p prints a chunk on one of its streams
ProcessOutput(p, stream, chunk) ==
    /\ p \in DOMAIN procs
    /\ Handle(dataListener(State, stream, chunk))
    /\ lastOp' = Op(stream, chunk, p, 0)

\* the child process p exits and its stdio closes: 'close' is emitted with the code
ProcessClose(p, code) ==
    /\ p \in DOMAIN procs
    /\ Handle(EmitClose(State, p, code))
    /\ lastOp' = [Op("close", procs[p].dir, p, code) EXCEPT !.final = procs[p],
                                                              !.pending = TimersOf(timers, p)]

\* a request or connection gets the next number; its suspended handler is
\* kept under it
Request == [State EXCEPT !.requests = @ + 1]

\* the page of observer o is loaded: let activeServer = null
Open(s, o) == [s EXCEPT !.activeServer[o] = NullDir]

\* io.on('connection', (socket) => { ...; refreshServers(); ... })
Connect(o) ==
    /\ Handle(refreshServers(Open(Request, o), requests + 1, o))
    /\ lastOp' = [Op("connection", "", 0, 0) EXCEPT !.task = Task("refresh", "request", o, "", "")]

CreateServer(o, serverName, serverType) ==
    /\ Handle(createServer(Request, requests + 1, o, serverName, serverType))
    /\ lastOp' = [Op("create-server", serverName, 0, 0) EXCEPT
                     !.task = Task("create", "request", o, serverName, serverType)]

DeleteServer(o, serverName) ==
    /\ Handle(deleteServer(Request, requests + 1, o, serverName))
    /\ lastOp' = [Op("delete-server", serverName, 0, 0) EXCEPT
                     !.task = Task("delete", "request", o, serverName, "")]

RenameServer(o, oldName, newName) ==
    /\ Handle(renameServer(Request, requests + 1, o, oldName, newName))
    /\ lastOp' = [Op("rename-server", oldName, 0, 0) EXCEPT
                     !.task = Task("rename", "request", o, oldName, newName)]

\* the operation a suspended handler awaits ends, and the handler runs on
TaskResume(id, outcome) ==
    /\ id \in DOMAIN tasks
    /\ outcome = "ok" \/ Fallible(tasks[id])
    /\ Handle(Resume(State, id, outcome))
    /\ lastOp' = [Op("resume", tasks[id].name, 0, 0) EXCEPT
                     !.task = tasks[id], !.code = IF outcome = "ok" THEN 0 ELSE 1]

\* an installer or a download calls runCommand(socket, command, args, cwd, outputEvent)
RunCommand(o, cmd, outputEvent) ==
    /\ \E outcome \in SpawnOutcomes :
           Handle(runCommand(WithSpawn(State, outcome), o, cmd, outputEvent))
    /\ lastOp' = Op("run-command", cmd.command, Len(jobs) + 1, 0)

\* the command prints a chunk
JobOutput(j, stream, chunk) ==
    /\ j \in DOMAIN jobs
    /\ jobs[j].spawn = "ok"
    /\ ~jobs[j].closed
    /\ Handle(jobData(State, j, stream, chunk))
    /\ lastOp' = Op("job-" \o stream, chunk, j, 0)

\* a child that could not be spawned emits 'error'
JobError(j) ==
    /\ j \in DOMAIN jobs
    /\ jobs[j].spawn = "error"
    /\ ~jobs[j].errored
    /\ Handle(jobError(State, j))
    /\ lastOp' = Op("job-error", "", j, 0)

\* 'close': with the exit code of the command, or, after 'error', with the
\* negative errno of the failed spawn
JobClose(j, code) ==
    /\ j \in DOMAIN jobs
    /\ ~jobs[j].closed
    /\ IF jobs[j].spawn = "ok" THEN code \in ExitCodes
                               ELSE jobs[j].errored /\ code = SpawnFailedCode
    /\ Handle(jobClose(State, j, code))
    /\ lastOp' = Op("job-close", "", j, code)

RemoveAt(seq, i) == SubSeq(seq, 1, i - 1) \o SubSeq(seq, i + 1, Len(seq))

\* ------------------------------------------------------ cleanup sweep
\* exec(`killall -q -9 java; pkill -9 -f "playit-linux-amd64"`) starts a
\* shell and returns; nothing waits for it.  When the shell runs, killall
\* kills every process named java and pkill every process whose command line
\* holds the tunnel's name: those of the start.sh that runs then and the java
\* of an installer that runs then
RunsJava(cmd) == cmd = InstallerCommand

sweepRun(s, i) ==
    LET owner == s.sweeps[i]
        sessions == {[kind |-> "session", id |-> p, owner |-> owner] : p \in DOMAIN s.procs}
        running == {j \in DOMAIN s.jobs : /\ s.jobs[j].spawn = "ok"
                                          /\ ~s.jobs[j].closed
                                          /\ RunsJava(s.jobs[j].cmd)}
        helpers == {[kind |-> "job", id |-> j, owner |-> owner] : j \in running}
    IN  [s EXCEPT !.swept = @ \cup sessions \cup helpers,
                  !.sweeps = RemoveAt(@, i)]

\* the shell of a sweep runs its commands
SweepRun(i) ==
    /\ i \in DOMAIN sweeps
    /\ Handle(sweepRun(State, i))
    /\ lastOp' = Op("sweep", "", sweeps[i], 0)

TimerCallback(s, t) ==
    CASE t.kind = "term" -> termTimeout(s)
      [] t.kind = "kill" -> killTimeout(s)
      [] OTHER -> startScriptProcess(s, t.dir)

\* a timer whose delay has elapsed fires
TimerFire(i) ==
    /\ i \in DOMAIN timers
    /\ timers[i].rem = 0
    /\ \E outcome \in SpawnOutcomes :
           Handle(TimerCallback([WithSpawn(State, outcome) EXCEPT !.timers = RemoveAt(@, i)],
                                timers[i]))
    /\ lastOp' = Op(timers[i].kind, timers[i].dir, timers[i].owner[1], 0)

MinRem == CHOOSE m \in {timers[i].rem : i \in DOMAIN timers} :
              \A i \in DOMAIN timers : m <= timers[i].rem

\* time passes, up to the next deadline or by one quantum; no timer is overdue
Tick(toDeadline) ==
    /\ hostUp
    /\ timers # <<>>
    /\ LET d == IF toDeadline THEN MinRem ELSE Quantum IN
       /\ d > 0
       /\ \A i \in DOMAIN timers : d <= timers[i].rem
       /\ timers' = [i \in DOMAIN timers |-> [timers[i] EXCEPT !.rem = @ - d]]
    /\ emitted' = <<>>
    /\ execed' = <<>>
    /\ fault' = ""
    /\ lastOp' = Op("tick", "", 0, 0)
    /\ UNCHANGED <<hostUp, scriptProcess, activeServerDir, onStopCallback, procs, spawned,
                   existing, dirs, meta, tasks, requests, jobs, exitRuns,
                   sweeps, swept, activeServer, call>>

\* ----------------------------------------------------- helper functions
\* isValidPath, getJdkPackage and the two functions of server.properties are
\* functions of their arguments alone.  call holds one call: its arguments
\* from the start, its result once the function has returned.
sessionVars == <<hostUp, fault, scriptProcess, activeServerDir, onStopCallback, timers,
                 procs, spawned, existing, dirs, meta, tasks, requests, jobs, exitRuns,
                 emitted, execed, sweeps, swept, activeServer, lastOp>>

Call(fn, args) == [fn |-> fn, args |-> args, result |-> "", done |-> FALSE]

Returns(result) ==
    /\ hostUp
    /\ ~call.done
    /\ call' = [call EXCEPT !.result = result, !.done = TRUE]
    /\ UNCHANGED sessionVars

\* ---- isValidPath.  A path is absolute or relative and has segments; a
\* segment and a resolved path string are sequences of characters, so that
\* startsWith compares characters as the code does.
DirectoryNames == {<<"s">>, <<"s", "2">>, <<"t">>}   \* "s", "s2", "t"
DotDot == <<".", ".">>
Segments == DirectoryNames \cup {DotDot}
Dirname == <<<<"a", "p", "p">>>>   \* __dirname: "/app"

Paths == [abs : BOOLEAN, segs : UNION {[1..k -> Segments] : k \in 0..MaxDepth}]
Relative(segs) == [abs |-> FALSE, segs |-> segs]

\* one segment after the other: ".." leaves the last directory (the root has
\* none to leave), "." and "" stay
RECURSIVE Normalize(_, _)
Normalize(dir, segs) ==
    IF segs = <<>> THEN dir
    ELSE LET h == Head(segs) IN
         Normalize(CASE h = DotDot -> (IF dir = <<>> THEN dir ELSE SubSeq(dir, 1, Len(dir) - 1))
                     [] h = <<".">> \/ h = <<>> -> dir
                     [] OTHER -> Append(dir, h),
                   Tail(segs))

\* path.resolve(dir, ...paths): an absolute path starts again from the root
RECURSIVE pathResolve(_, _)
pathResolve(dir, paths) ==
    IF paths = <<>> THEN dir
    ELSE pathResolve(Normalize(IF Head(paths).abs THEN <<>> ELSE dir, Head(paths).segs),
                     Tail(paths))

\* path.join(dir, ...paths): the paths are concatenated, then normalized
RECURSIVE pathJoin(_, _)
pathJoin(dir, paths) ==
    IF paths = <<>> THEN dir
    ELSE pathJoin(Normalize(dir, Head(paths).segs), Tail(paths))

\* the string of an absolute path: "/" before each segment, "/" for the root
RECURSIVE Slashed(_)
Slashed(segs) == IF segs = <<>> THEN <<>> ELSE <<"/">> \o Head(segs) \o Slashed(Tail(segs))

PathString(segs) == IF segs = <<>> THEN <<"/">> ELSE Slashed(segs)

\* String.prototype.startsWith
startsWith(string, prefix) ==
    Len(prefix) <= Len(string) /\ SubSeq(string, 1, Len(prefix)) = prefix

isValidPath(serverName, paths) ==
    LET serverPath == pathResolve(Dirname, <<serverName>>)
        requestedPath == pathResolve(serverPath, paths)
    IN  startsWith(PathString(requestedPath), PathString(serverPath))

\* a file handler: if (!isValidPath(serverName, ...paths)) throw ...; then
\* the operation on path.join(__dirname, serverName, ...paths)
fileOperation(serverName, paths) ==
    [accepted |-> isValidPath(serverName, paths),
     serverPath |-> pathResolve(Dirname, <<serverName>>),
     target |-> pathJoin(Dirname, <<serverName>> \o paths)]

\* the handlers call isValidPath with a name and one path, rename-file with two
PathCalls ==
    {Call("isValidPath", <<Relative(<<n>>), paths>>) :
        n \in DirectoryNames, paths \in UNION {[1..k -> Paths] : k \in 1..2}}

FileOperation ==
    /\ call.fn = "isValidPath"
    /\ Returns(fileOperation(call.args[1], call.args[2]))

\* ---- getJdkPackage.  A version name is its parts between the dots, each as
\* Number() reads it, and whether a "-build" follows.
NaN == -1
Numbers == {0, 1, 4, 5, 16, 17, 20, 21, NaN}
VersionNames == [parts : UNION {[1..k -> Numbers] : k \in 1..MaxParts}, build : BOOLEAN]

\* versionName.split('-')[0].split('.').map(Number)
PartsOf(versionName) == versionName.parts

getJdkPackage(versionName, forBuildTools) ==
    LET parts == PartsOf(versionName) IN
    IF forBuildTools THEN "pkgs.jdk17_headless"
    ELSE IF \E i \in DOMAIN parts : parts[i] = NaN THEN "pkgs.jdk17_headless"
    ELSE IF Len(parts) > 1 /\ parts[1] = 1
    THEN IF parts[2] >= 21 THEN "pkgs.jdk21_headless"
         ELSE IF parts[2] = 20 /\ Len(parts) > 2 /\ parts[3] >= 5 THEN "pkgs.jdk21_headless"
         ELSE IF parts[2] >= 17 THEN "pkgs.jdk17_headless"
         ELSE "pkgs.jdk8_headless"
    ELSE "pkgs.jdk17_headless"

JdkCalls == {Call("getJdkPackage", <<v, b>>) : v \in VersionNames, b \in BOOLEAN}

GetJdkPackage ==
    /\ call.fn = "getJdkPackage"
    /\ Returns(getJdkPackage(call.args[1], call.args[2]))

\* ---- server.properties.  A text is a sequence of pieces: a character, or
\* a word that holds none of the characters the two functions look for.  An
\* object is its own properties in insertion order; what parseProperties
\* builds is the function from keys to values.
Whitespace == {" ", "\r", "\n"}
PropertyKeys ==
    {<<"a">>, <<"b">>, <<"a", " ", "b">>, <<"__proto__">>,
     <<"#", "a">>, <<"a", "=", "b">>, <<>>}
PropertyValues ==
    {<<>>, <<"a">>, <<"a", "=", "b">>, <<"#", "a">>, <<"a", " ">>, <<"a", "\n", "b">>}
PropertyLists ==
    {m \in UNION {[1..k -> [key : PropertyKeys, value : PropertyValues]] : k \in 0..MaxProps} :
        \A i, j \in DOMAIN m : i # j => m[i].key # m[j].key}

\* for (const key in properties) content += `${key}=${properties[key]}\n`
RECURSIVE serializeProperties(_)
serializeProperties(properties) ==
    IF properties = <<>> THEN <<>>
    ELSE Head(properties).key \o <<"=">> \o Head(properties).value \o <<"\n">>
            \o serializeProperties(Tail(properties))

\* text.split(sep) for a separator of one character
RECURSIVE Split(_, _)
Split(text, sep) ==
    IF \A i \in DOMAIN text : text[i] # sep THEN <<text>>
    ELSE LET i == CHOOSE k \in DOMAIN text :
                      text[k] = sep /\ \A l \in 1..(k - 1) : text[l] # sep
         IN  <<SubSeq(text, 1, i - 1)>> \o Split(SubSeq(text, i + 1, Len(text)), sep)

\* content.split(/\r?\n/): a "\r" right before the "\n" is part of the separator
SplitLines(content) ==
    LET raw == Split(content, "\n")
        Chop(l) == IF l # <<>> /\ l[Len(l)] = "\r" THEN SubSeq(l, 1, Len(l) - 1) ELSE l
    IN  [i \in DOMAIN raw |-> IF i < Len(raw) THEN Chop(raw[i]) ELSE raw[i]]

RECURSIVE Trim(_)
Trim(text) ==
    IF text = <<>> THEN text
    ELSE IF Head(text) \in Whitespace THEN Trim(Tail(text))
    ELSE IF text[Len(text)] \in Whitespace THEN Trim(SubSeq(text, 1, Len(text) - 1))
    ELSE text

\* parts.join(sep)
RECURSIVE JoinWith(_, _)
JoinWith(parts, sep) ==
    IF parts = <<>> THEN <<>>
    ELSE IF Len(parts) = 1 THEN parts[1]
    ELSE parts[1] \o <<sep>> \o JoinWith(Tail(parts), sep)

\* properties[key] = value on an object literal: "__proto__" names the
\* accessor of Object.prototype, whose setter ignores a string and creates
\* no property; any other key becomes or overwrites an own property
Assign(properties, key, value) ==
    IF key = <<"__proto__">> THEN properties
    ELSE (key :> value) @@ properties

RECURSIVE parseLines(_, _)
parseLines(properties, lines) ==
    IF lines = <<>> THEN properties
    ELSE LET line == Head(lines)
             parts == Split(line, "=")
         IN  IF (line # <<>> /\ line[1] = "#") \/ Trim(line) = <<>>
             THEN parseLines(properties, Tail(lines))
             ELSE parseLines(Assign(properties, Trim(parts[1]),
                                    Trim(JoinWith(Tail(parts), "="))),
                             Tail(lines))

parseProperties(content) == parseLines(<<>>, SplitLines(content))

PropertyCalls == {Call("properties", <<m>>) : m \in PropertyLists}

\* save-server-properties writes serializeProperties(properties) to the file,
\* get-server-properties reads the file and sends parseProperties(content)
SaveAndRead ==
    /\ call.fn = "properties"
    /\ Returns(parseProperties(serializeProperties(call.args[1])))

\* at most this many timers are armed at once
TimerSlots == 1..(2 * MaxWrites * MaxProcs + MaxProcs)

InitSession ==
    /\ hostUp = TRUE
    /\ fault = ""
    /\ scriptProcess = NoProc
    /\ activeServerDir = NullDir
    /\ onStopCallback = NoCallback
    /\ timers = <<>>
    /\ procs = <<>>
    /\ spawned = 0
    /\ existing = ServerNames
    /\ dirs = ServerNames
    /\ meta = InitialMeta
    /\ tasks = <<>>
    /\ requests = 0
    /\ jobs = <<>>
    /\ exitRuns = [p \in 1..(MaxProcs + 1) |-> 0]
    /\ emitted = <<>>
    /\ execed = <<>>
    /\ sweeps = <<>>
    /\ swept = {}
    /\ activeServer = [o \in Observers |-> NoPage]
    /\ lastOp = Op("init", "", 0, 0)

Init == InitSession /\ call = NoCall

\* a call of one of the helper functions, with arguments from the bounded sets
InitHelpers ==
    /\ InitSession
    /\ \/ call \in PathCalls
       \/ call \in JdkCalls
       \/ call \in PropertyCalls

Next ==
    \/ \E d \in Requested : StartScript(d)
    \/ StopScript
    \/ RestartScript
    \/ \E cmd \in Commands : TerminalCommand(cmd)
    \/ \E p \in 1..MaxProcs, code \in ExitCodes : ProcessClose(p, code)
    \/ \E i \in TimerSlots : TimerFire(i)
    \/ \E toDeadline \in BOOLEAN : Tick(toDeadline)

Spec == Init /\ [][Next]_vars

\* the session together with the output of its child: start, stop, timers,
\* exit and the two 'data' listeners
NextOutput ==
    \/ \E d \in Requested : StartScript(d)
    \/ StopScript
    \/ \E p \in 1..MaxProcs, stream \in Streams, chunk \in Chunks : ProcessOutput(p, stream, chunk)
    \/ \E p \in 1..MaxProcs, code \in ExitCodes : ProcessClose(p, code)
    \/ \E i \in TimerSlots : TimerFire(i)
    \/ \E toDeadline \in BOOLEAN : Tick(toDeadline)

SpecOutput == Init /\ [][NextOutput]_vars

\* a restart request while no restart is under way
RestartOnce == onStopCallback = NoCallback /\ RestartScript

\* the helper functions, each applied to the arguments of the call
NextHelpers ==
    \/ FileOperation
    \/ GetJdkPackage
    \/ SaveAndRead

SpecHelpers == InitHelpers /\ [][NextHelpers]_vars

\* the session, an installer command and the cleanup sweeps of the exits:
\* start, restart (one per process), exit, timers, the run of an installer
\* through runCommand, and the run of each sweep at any time after its exec
NextSweep ==
    \/ \E d \in InstanceNames : StartScript(d)
    \/ RestartOnce
    \/ \E p \in 1..MaxProcs : ProcessClose(p, 0)
    \/ \E i \in TimerSlots : TimerFire(i)
    \/ Tick(TRUE)
    \/ RunCommand(1, InstallerCommand, "creation-status")
    \/ \E j \in 1..MaxJobs, code \in ExitCodes : JobClose(j, code)
    \/ \E i \in 1..MaxProcs : SweepRun(i)

SpecSweep == Init /\ [][NextSweep]_vars

\* the session and the pages of its observers: connections with their
\* snapshots, start, restart (which stops the process and starts it again
\* from a timer; one restart is requested per process), exit, and the
\* timers, each fired when time has reached it
NextObservers ==
    \/ \E o \in Observers : Connect(o)
    \/ \E id \in 1..MaxRequests : TaskResume(id, "ok")
    \/ \E d \in InstanceNames : StartScript(d)
    \/ RestartOnce
    \/ \E p \in 1..MaxProcs, code \in ExitCodes : ProcessClose(p, code)
    \/ \E i \in TimerSlots : TimerFire(i)
    \/ Tick(TRUE)

SpecObservers == Init /\ [][NextObservers]_vars

\* the instances and the session that runs one of them: connections,
\* creation, deletion and renaming with their suspended handlers, start and exit
NextInstances ==
    \/ \E o \in Observers : Connect(o)
    \/ \E o \in Observers, n \in InstanceNames, t \in ServerTypes : CreateServer(o, n, t)
    \/ \E o \in Observers, n \in InstanceNames : DeleteServer(o, n)
    \/ \E o \in Observers, r \in RenamePairs : RenameServer(o, r[1], r[2])
    \/ \E id \in 1..MaxRequests, outcome \in FsOutcomes : TaskResume(id, outcome)
    \/ \E d \in InstanceNames : StartScript(d)
    \/ \E p \in 1..MaxProcs, code \in ExitCodes : ProcessClose(p, code)

SpecInstances == Init /\ [][NextInstances]_vars

\* Timers whose delay has elapsed fire and time does not stand still (the
\* event loop of Node runs every callback that is due); a process that was
\* sent SIGKILL ends.
KilledClose ==
    \E p \in 1..MaxProcs, code \in ExitCodes :
        /\ p \in DOMAIN procs
        /\ \E i \in DOMAIN procs[p].signals : procs[p].signals[i] = "SIGKILL"
        /\ ProcessClose(p, code)

NextLive ==
    \/ \E d \in ServerNames : StartScript(d)
    \/ StopScript
    \/ \E p \in 1..MaxProcs, code \in ExitCodes : ProcessClose(p, code)
    \/ \E i \in TimerSlots : TimerFire(i)
    \/ \E toDeadline \in BOOLEAN : Tick(toDeadline)

SpecLive ==
    /\ Init
    /\ [][NextLive]_vars
    /\ WF_vars(\E i \in TimerSlots : TimerFire(i))
    /\ WF_vars(\E toDeadline \in BOOLEAN : Tick(toDeadline))
    /\ WF_vars(KilledClose)

\* the Command Runner: commands are spawned, print, fail to spawn and end
NextCommand ==
    \/ \E o \in Observers, cmd \in RunCommands, e \in OutputEvents : RunCommand(o, cmd, e)
    \/ \E j \in 1..MaxJobs, stream \in Streams, chunk \in Chunks : JobOutput(j, stream, chunk)
    \/ \E j \in 1..MaxJobs : JobError(j)
    \/ \E j \in 1..MaxJobs, code \in ExitCodes \cup {SpawnFailedCode} : JobClose(j, code)

SpecCommand == Init /\ [][NextCommand]_vars

TypeOK ==
    /\ hostUp \in BOOLEAN
    /\ scriptProcess \in 0..MaxProcs
    /\ activeServerDir \in ServerNames \cup {NullDir}
    /\ \A i \in DOMAIN timers : timers[i].rem >= 0
    /\ spawned \in 0..MaxProcs
    /\ DOMAIN procs \subseteq 1..spawned

\* =================================================================== claims
Active == DOMAIN procs                     \* spawned, 'close' not yet observed
Idle == scriptProcess = NoProc
EscalationTimers == {i \in DOMAIN timers : timers[i].kind \in {"term", "kill"}}
StartTimers(ts) == {i \in DOMAIN ts : ts[i].kind = "start"}
Count(x, seq) == Cardinality({i \in DOMAIN seq : seq[i] = x})

\* C1: whatever requests, exits, timer firings and deferred starts happen,
\* at most one child process is active (spawned, exit not yet observed).
C1_AtMostOneActive == Cardinality(Active) <= 1

\* the deferred start of a restart has just spawned the second process
C1_Witness ==
    /\ lastOp.op = "start"
    /\ spawned = 2
    /\ Active = {2}

\* C2: a start request while a process is held spawns nothing, emits the
\* warning, and leaves handle, active name, callback and timers as they were.
C2_StartRejectedWhileActive ==
    [][(lastOp'.op = "start-script" /\ scriptProcess # NoProc) =>
          /\ spawned' = spawned
          /\ procs' = procs
          /\ emitted' = <<Ev("terminal-output", AlreadyRunningText)>>
          /\ scriptProcess' = scriptProcess
          /\ activeServerDir' = activeServerDir
          /\ onStopCallback' = onStopCallback
          /\ timers' = timers]_vars

\* a start was rejected while Stopping, with a restart callback queued
C2_Witness ==
    /\ lastOp.op = "start-script"
    /\ emitted = <<Ev("terminal-output", AlreadyRunningText)>>
    /\ scriptProcess # NoProc
    /\ onStopCallback # NoCallback
    /\ EscalationTimers # {}

IsPrefix(a, b) == Len(a) <= Len(b) /\ SubSeq(b, 1, Len(a)) = a

\* C3: the deferred start of a restart of X spawns exactly one new process
\* and that process runs X: right after the deferred start has run, the
\* session holds the newest process, started in this step on instance X
\* (the operating system permitting).
C3_RestartRespawnsSame ==
    (lastOp.op = "start" /\ fault = "") =>
        /\ scriptProcess = spawned
        /\ activeServerDir = lastOp.arg
        /\ emitted = <<Ev("script-started", lastOp.arg)>>

\* C4: a process that closes while the first grace period of the first stop
\* request is still running (its SIGTERM timer has time left) has received
\* neither SIGTERM nor SIGKILL, and no escalation timer armed for it is left.
FirstGraceRunning(pending) ==
    \E i \in DOMAIN pending :
        pending[i].kind = "term" /\ pending[i].owner[2] = 1 /\ pending[i].rem > 0

C4_NoSignalOnEarlyExit ==
    (lastOp.op = "close" /\ FirstGraceRunning(lastOp.pending)) =>
        /\ lastOp.final.signals = <<>>
        /\ TimersOf(timers, lastOp.pid) = <<>>

\* two stop requests, the process closed half a grace period after the first
C4_Witness ==
    /\ lastOp.op = "close"
    /\ lastOp.final.stops = 2
    /\ lastOp.pending[1] = Timer("term", TermDelay - Quantum, <<lastOp.pid, 1>>, NullDir)
    /\ Len(lastOp.pending) = 4
    /\ lastOp.final.signals = <<>>
    /\ timers = <<>>

\* C5: once grace period 1 + grace period 2 have elapsed after the stop
\* request (its SIGKILL timer is no longer pending) a process that is still
\* active has received SIGKILL exactly once.
KillDelayElapsed(p) ==
    /\ procs[p].stops >= 1
    /\ \A i \in DOMAIN timers : ~(timers[i].kind = "kill" /\ timers[i].owner = <<p, 1>>)

C5_KillExactlyOnce ==
    \A p \in Active : KillDelayElapsed(p) => Count("SIGKILL", procs[p].signals) = 1

\* C6: the single callback slot is cleared when a close is handled, and the
\* callback queued at that moment is invoked exactly once: exactly one
\* deferred start for its instance is armed, and none when no callback was queued.
C6_CallbackOnceThenCleared ==
    [][lastOp'.op = "close" =>
          /\ onStopCallback' = NoCallback
          /\ Cardinality(StartTimers(timers')) =
                Cardinality(StartTimers(timers)) + (IF onStopCallback # NoCallback THEN 1 ELSE 0)
          /\ onStopCallback # NoCallback =>
                timers'[Len(timers')] = Timer("start", RestartDelay, <<0, 0>>, onStopCallback.dir)]_vars

\* a close after two stop/restart requests has armed the one deferred start
C6_Witness ==
    /\ lastOp.op = "close"
    /\ lastOp.final.stops = 2
    /\ onStopCallback = NoCallback
    /\ timers = <<Timer("start", RestartDelay, <<0, 0>>, lastOp.arg)>>

\* C7: the exit handling has run exactly once for every process that closed
\* and not at all for an active one; a close step emits script-stopped once,
\* runs one cleanup sweep and leaves the session cleared; no other step
\* emits script-stopped.
C7_ExitHandledOnce ==
    /\ \A p \in 1..spawned : exitRuns[p] = IF p \in Active THEN 0 ELSE 1
    /\ Count(Ev("script-stopped", ""), emitted) = IF lastOp.op = "close" THEN 1 ELSE 0
    /\ lastOp.op = "close" =>
          /\ execed = <<SweepCommand>>
          /\ Idle
          /\ activeServerDir = NullDir

\* a process closed after it was sent SIGTERM and SIGKILL
C7_Witness ==
    /\ lastOp.op = "close"
    /\ lastOp.final.signals = <<"SIGTERM", "SIGKILL">>
    /\ exitRuns[lastOp.pid] = 1

\* C8: a stop request while no process is held changes nothing: no event,
\* no stdin write, no timer, no callback queued, session state as before.
\* (The stop-script handler passes no callback.)
C8_StopWhileIdleIsNoOp ==
    [][(lastOp'.op = "stop-script" /\ Idle) =>
          /\ UNCHANGED <<scriptProcess, activeServerDir, onStopCallback, timers, procs, spawned>>
          /\ emitted' = <<>>
          /\ execed' = <<>>]_vars

\* a stop handled while Idle, during the delay of a restart
C8_Witness ==
    /\ lastOp.op = "stop-script"
    /\ lastOp.pid = NoProc
    /\ Idle
    /\ StartTimers(timers) # {}

\* C9: a restart request while no process is held changes nothing: nothing
\* is spawned, no timer is armed, no callback is queued.
C9_RestartWhileIdleIsNoOp ==
    [][(lastOp'.op = "restart-script" /\ Idle) =>
          /\ UNCHANGED <<scriptProcess, activeServerDir, onStopCallback, timers, procs, spawned>>
          /\ emitted' = <<>>
          /\ execed' = <<>>]_vars

\* a restart handled while Idle after a process has run and closed
C9_Witness ==
    /\ lastOp.op = "restart-script"
    /\ lastOp.pid = NoProc
    /\ Idle
    /\ spawned > 0
    /\ timers = <<>>

\* C10: a send-command text handled while a process is held is appended to
\* that process's stdin as the text followed by one newline (when the write
\* goes through), and what was written to a stdin stays in place before
\* everything written later.
C10_CommandsVerbatimInOrder ==
    [][/\ (lastOp'.op = "terminal-command" /\ ~Idle /\ fault' = "") =>
            procs'[scriptProcess].stdin =
                Append(procs[scriptProcess].stdin, lastOp'.arg \o "\n")
       /\ \A p \in Active \cap Active' : IsPrefix(procs[p].stdin, procs'[p].stdin)]_vars

\* two different texts reached stdin in the order sent
C10_Witness ==
    \E p \in Active : procs[p].stdin = <<"say hi\n", "list\n">>

\* C11: a start request, while Idle, for an instance whose start.sh does not
\* exist spawns nothing and emits no script-started: the session stays Idle
\* with no active name, callback and timers stay as they were, and the one
\* event broadcast is the error text naming the instance.
C11_StartWithoutScriptRejected ==
    [][\A d \in Requested \ existing :
          (Idle /\ lastOp'.op = "start-script" /\ StartScript(d)) =>
              /\ spawned' = spawned
              /\ procs' = procs
              /\ scriptProcess' = NoProc
              /\ activeServerDir' = NullDir
              /\ UNCHANGED <<onStopCallback, timers>>
              /\ emitted' = <<Ev("terminal-output", NoScriptText(d))>>]_vars

\* a start of the missing instance was rejected after a process had run
C11_Witness ==
    /\ lastOp.op = "start-script"
    /\ emitted = <<Ev("terminal-output", NoScriptText("lost"))>>
    /\ Idle
    /\ activeServerDir = NullDir
    /\ spawned = 1

\* C12: a start request for N, while Idle, whose start.sh exists and whose
\* spawn the operating system carries out, adds exactly one child process,
\* with N's directory as working directory; the session holds that process
\* with N as active name, and script-started(N) is broadcast exactly once.
C12_StartSpawnsOne ==
    [][\A d \in existing :
          (Idle /\ lastOp'.op = "start-script" /\ fault' = "" /\ StartScript(d)) =>
              /\ spawned' = spawned + 1
              /\ DOMAIN procs' = {spawned'}
              /\ procs'[spawned'].cwd = d
              /\ procs'[spawned'].dir = d
              /\ scriptProcess' = spawned'
              /\ activeServerDir' = d
              /\ emitted' = <<Ev("script-started", d)>>
              /\ UNCHANGED <<onStopCallback, timers>>]_vars

\* the second process of a behaviour was started by a start request
C12_Witness ==
    /\ lastOp.op = "start-script"
    /\ fault = ""
    /\ scriptProcess = 2
    /\ Active = {2}
    /\ procs[2].cwd = "creative"
    /\ activeServerDir = "creative"
    /\ emitted = <<Ev("script-started", "creative")>>

\* the escalation of every stop request: its SIGKILL timer runs the second
\* grace period behind its SIGTERM timer, each of its two timers is either
\* pending or has sent its signal, and no SIGKILL precedes the first SIGTERM
StopSteps == {"stop-script", "restart-script"}
SecondGrace == KillDelay - TermDelay
PendingOf(p, kind) == {i \in DOMAIN timers : timers[i].kind = kind /\ timers[i].owner[1] = p}

EscalationOrdered ==
    /\ \A i \in EscalationTimers :
          /\ timers[i].rem <= (IF timers[i].kind = "term" THEN TermDelay ELSE KillDelay)
          /\ timers[i].kind = "term" =>
                \E j \in EscalationTimers :
                    /\ timers[j].kind = "kill"
                    /\ timers[j].owner = timers[i].owner
                    /\ timers[j].rem = timers[i].rem + SecondGrace
    /\ \A p \in Active :
          /\ Count("SIGTERM", procs[p].signals) + Cardinality(PendingOf(p, "term")) = procs[p].stops
          /\ Count("SIGKILL", procs[p].signals) + Cardinality(PendingOf(p, "kill")) = procs[p].stops
          /\ \A n \in 1..Len(procs[p].signals) :
                Count("SIGKILL", SubSeq(procs[p].signals, 1, n))
                    <= Count("SIGTERM", SubSeq(procs[p].signals, 1, n))

\* C13: a stop request on a held process writes the "stop" line (when the
\* write goes through) and sends no signal itself; SIGTERM is sent only by the
\* timer armed for the first grace period, SIGKILL only by the timer armed for
\* both grace periods, which is due the second grace period after the SIGTERM
\* timer of the same request and so never before it.
C13_EscalationInOrder ==
    [][/\ (lastOp'.op \in StopSteps /\ ~Idle /\ hostUp') =>
            /\ procs'[scriptProcess].signals = procs[scriptProcess].signals
            /\ fault' = "" =>
                  procs'[scriptProcess].stdin = Append(procs[scriptProcess].stdin, StopLine)
            /\ timers' = timers \o
                  <<Timer("term", TermDelay, <<scriptProcess, procs'[scriptProcess].stops>>, NullDir),
                    Timer("kill", KillDelay, <<scriptProcess, procs'[scriptProcess].stops>>, NullDir)>>
       /\ \A p \in Active \cap Active' :
            procs'[p].signals # procs[p].signals =>
                /\ lastOp'.op \in {"term", "kill"}
                /\ procs'[p].signals = Append(procs[p].signals,
                        IF lastOp'.op = "term" THEN "SIGTERM" ELSE "SIGKILL")
       /\ EscalationOrdered']_vars

\* one stop request ran through its three stages on a process that ignores them
C13_Witness ==
    \E p \in Active :
        /\ procs[p].stops = 1
        /\ procs[p].stdin = <<StopLine>>
        /\ procs[p].signals = <<"SIGTERM", "SIGKILL">>
        /\ timers = <<>>

\* C14: right after a close has been handled the session is Idle, the active
\* name is unset, and no escalation timer of any stop request for the closed
\* process is pending.
C14_ExitClearsSessionAndTimers ==
    lastOp.op = "close" =>
        /\ scriptProcess = NoProc
        /\ activeServerDir = NullDir
        /\ TimersOf(timers, lastOp.pid) = <<>>
        /\ lastOp.pid \notin Active

\* a process closed after its first SIGTERM, with three timers of two stop
\* requests still pending
C14_Witness ==
    /\ lastOp.op = "close"
    /\ lastOp.final.stops = 2
    /\ lastOp.final.signals = <<"SIGTERM">>
    /\ Len(lastOp.pending) = 3
    /\ EscalationTimers = {}

\* C15: a timer cancelled at process exit has no effect afterwards: every
\* escalation timer that is pending, and every one that fires, was armed for
\* the process the session still holds, so none is left to send a signal or
\* to change the session once its process has closed, even one that was
\* already due when the close was handled.
C15_CancelledTimersInert ==
    /\ \A i \in EscalationTimers :
          timers[i].owner[1] = scriptProcess /\ scriptProcess \in Active
    /\ lastOp.op \in {"term", "kill"} =>
          /\ lastOp.pid = scriptProcess
          /\ lastOp.pid \in Active
          /\ procs[lastOp.pid].signals # <<>>

\* a close was handled while a SIGTERM timer of the process was due
C15_Witness ==
    /\ lastOp.op = "close"
    /\ \E i \in DOMAIN lastOp.pending :
          lastOp.pending[i].kind = "term" /\ lastOp.pending[i].rem = 0
    /\ timers = <<>>
    /\ Idle

\* C16: when the spawn of a start fails in the operating system, the host
\* stays up, the session is Idle with no active name, and the failure has
\* been reported to the observers as output.
C16_SpawnFailureReported ==
    fault = "spawn-error" =>
        /\ hostUp
        /\ scriptProcess = NoProc
        /\ activeServerDir = NullDir
        /\ \E i \in DOMAIN emitted : emitted[i].ev = "terminal-output"

\* C17: a send-command request while no process is held leaves the session
\* as it was and gives the user a notice.
C17_CommandWhileIdleNoticed ==
    (lastOp.op = "terminal-command" /\ lastOp.pid = NoProc) =>
        /\ scriptProcess = NoProc
        /\ activeServerDir = NullDir
        /\ Active = {}
        /\ emitted # <<>>

\* C18: when a write to the stdin of the held process fails, in a stop or in
\* a send-command, the failure is reported as output and the session still
\* holds the same process under its name.
C18_WriteFailureReported ==
    fault \in WriteFaults =>
        /\ hostUp
        /\ \E i \in DOMAIN emitted : emitted[i] = Ev("terminal-output", CouldNotWriteText)
        /\ scriptProcess = lastOp.pid
        /\ scriptProcess \in Active
        /\ activeServerDir = procs[scriptProcess].dir

\* C19: while the host runs, the handle and the active name of a session that
\* holds a process change only in the step that handles the close of that
\* process: no request and no timer clears or replaces them.
C19_OnlyExitLeavesRunning ==
    [][(scriptProcess # NoProc /\ hostUp' /\
          (scriptProcess' # scriptProcess \/ activeServerDir' # activeServerDir)) =>
              /\ lastOp'.op = "close"
              /\ lastOp'.pid = scriptProcess]_vars

\* the SIGKILL timer has fired and the session still holds the process
C19_Witness ==
    /\ lastOp.op = "kill"
    /\ scriptProcess = lastOp.pid
    /\ scriptProcess \in Active
    /\ activeServerDir = procs[scriptProcess].dir
    /\ procs[scriptProcess].signals = <<"SIGTERM", "SIGKILL">>

\* the origin an observer reads off an output text: error when the text
\* carries the marker the stderr listener puts in front of a chunk
OriginTag(text) == IF \E c \in Chunks : text = StderrText(c) THEN "error" ELSE "normal"

\* C20: a chunk printed by the held process is broadcast as one output event;
\* a stdout chunk arrives as exactly its text and reads as normal-origin, a
\* stderr chunk reads as error-origin.
C20_OutputTaggedByOrigin ==
    lastOp.op \in Streams =>
        /\ Len(emitted) = 1
        /\ emitted[1].ev = "terminal-output"
        /\ emitted[1].to = Broadcast
        /\ lastOp.op = "stdout" => emitted[1].data = lastOp.arg
        /\ OriginTag(emitted[1].data) = (IF lastOp.op = "stdout" THEN "normal" ELSE "error")

\* C21: every event a handler emits is delivered to every connected
\* observer: instance lists, output, lifecycle events and the results of
\* instance requests alike, none of them to the requester alone.
C21_EveryEventToAll == \A i \in DOMAIN emitted : emitted[i].to = Observers

\* C22: a connection suspends refreshServers for the new socket; the snapshot
\* it emits goes to every socket, the new one included, carries the list,
\* the active name and the metadata, and its active name is the session's
\* active name at the emission, whatever was handled since the connection.
Resumed(kind, stage) ==
    lastOp.op = "resume" /\ lastOp.task.kind = kind /\ lastOp.task.stage = stage

C22_SnapshotActiveAtEmission ==
    /\ lastOp.op = "connection" =>
          \E id \in DOMAIN tasks :
              tasks[id].kind = "refresh" /\ tasks[id].stage = "list" /\ tasks[id].o = lastOp.task.o
    /\ Resumed("refresh", "meta") =>
          /\ emitted = <<Ev("existing-servers",
                            [servers |-> lastOp.task.servers, activeServer |-> activeServerDir,
                             serverMeta |-> [n \in existing |-> meta[n]]])>>
          /\ lastOp.task.o \in emitted[1].to
    /\ \A i \in DOMAIN emitted :
          emitted[i].ev = "existing-servers" => emitted[i].data.activeServer = activeServerDir

\* the snapshot of a connection is emitted after a start was handled in between
C22_Witness ==
    /\ Resumed("refresh", "meta")
    /\ lastOp.task.seen = NullDir
    /\ activeServerDir = "survival"
    /\ emitted[1].data.activeServer = "survival"
    /\ existing = ServerNames

\* C26: the start and the exit of a session leave the instances and their
\* metadata as they are; these change only in the step that ends a deletion,
\* a renaming or a creation with success.
C26_InstancesChangeOnlyOnSuccess ==
    [][(existing' # existing \/ meta' # meta) =>
          /\ lastOp'.op = "resume"
          /\ lastOp'.code = 0
          /\ \/ lastOp'.task.kind \in {"delete", "rename"}
             \/ lastOp'.task.kind = "create" /\ lastOp'.task.stage = "install"]_vars

\* C29: a deletion or renaming that takes effect on disk never names the
\* instance that is active at that moment, and a request that names the
\* active instance is rejected with an error.
C29_ActiveInstanceKept ==
    /\ (lastOp.op = "delete-server" /\ lastOp.arg = activeServerDir) =>
          emitted = <<EvTo(lastOp.task.o, "server-action-error", CannotDeleteText)>> /\ tasks = <<>>
    /\ (lastOp.op = "rename-server" /\ lastOp.arg = activeServerDir) =>
          emitted = <<EvTo(lastOp.task.o, "server-action-error", InvalidRenameText)>> /\ tasks = <<>>
    /\ (lastOp.op = "resume" /\ lastOp.task.kind \in {"delete", "rename"} /\ lastOp.code = 0) =>
          lastOp.task.name # activeServerDir

\* C30: a create request that names an existing directory is answered with
\* the error, and the cleanup of a failed creation leaves every instance and
\* its metadata on disk.
C30_FailedCreationKeepsInstances ==
    [][/\ (lastOp'.op = "create-server" /\ lastOp'.arg \in dirs) =>
             /\ emitted' = <<EvTo(lastOp'.task.o, "creation-status",
                                  FatalText(AlreadyExistsMessage(lastOp'.arg)))>>
             /\ existing' = existing
       /\ (lastOp'.op = "resume" /\ lastOp'.task.kind = "create" /\ lastOp'.task.stage = "cleanup") =>
             /\ existing' = existing
             /\ meta' = meta]_vars

\* C23: the exit handling does the same whatever the exit code is: handle,
\* active name and callback slot are cleared, a queued callback is invoked,
\* the timers of the process are gone, script-stopped and the cleanup sweep
\* are emitted, the host stays up; the code appears in the exit message.
C23_ExitCodeOnlyInMessage ==
    [][lastOp'.op = "close" =>
          LET Others(t) == ~(t.kind \in {"term", "kill"} /\ t.owner[1] = lastOp'.pid)
              deferred == IF onStopCallback # NoCallback
                          THEN <<Timer("start", RestartDelay, <<0, 0>>, onStopCallback.dir)>>
                          ELSE <<>>
          IN  /\ hostUp' /\ fault' = ""
              /\ scriptProcess' = NoProc
              /\ activeServerDir' = NullDir
              /\ onStopCallback' = NoCallback
              /\ timers' = SelectSeq(timers, Others) \o deferred
              /\ execed' = <<SweepCommand>>
              /\ emitted' = <<Ev("script-stopped", ""),
                              Ev("terminal-output",
                                 "\n--- Server process exited with code: "
                                    \o CodeText(lastOp'.code) \o " ---\n")>>]_vars

\* a process ended with code 1 while a restart was queued
C23_Witness ==
    /\ lastOp.op = "close"
    /\ lastOp.code = 1
    /\ StartTimers(timers) # {}
    /\ emitted[2].data = "\n--- Server process exited with code: 1 ---\n"

C28_SignalsFromOwnTimers ==
    [][\A p \in 1..MaxProcs :
          (p \in DOMAIN procs /\ p \in DOMAIN procs' /\ procs'[p].signals # procs[p].signals) =>
              /\ lastOp'.op \in {"term", "kill"}
              /\ lastOp'.pid = p
              /\ procs[p].stops >= 1]_vars

\* the second process was signalled by its own timer after the first one
\* had been stopped and had exited
C28_Witness ==
    /\ lastOp.op = "term"
    /\ lastOp.pid = 2
    /\ scriptProcess = 2
    /\ procs[2].signals = <<"SIGTERM">>
    /\ exitRuns[1] = 1

\* C24: a command whose 'close' was emitted has a settled promise; a settled
\* promise is resolved exactly when the command closed with code 0 and no
\* spawn error came first, is rejected with the spawn error when there was
\* one, and with the message naming code and command line otherwise; a
\* settled promise never changes.
Outcome(job) ==
    CASE job.errored -> Rejected(SpawnErrorMessage)
      [] job.closed /\ job.code = 0 -> Resolved
      [] job.closed ->
            Rejected("Command failed with code " \o CodeText(job.code) \o ": "
                        \o job.cmd.command \o " " \o Join(job.cmd.args))
      [] OTHER -> Pending

C24_OneTerminalOutcome ==
    [][/\ \A j \in DOMAIN jobs' : jobs'[j].promise = Outcome(jobs'[j])
       /\ \A j \in DOMAIN jobs :
             jobs[j].promise.state # "pending" => jobs'[j].promise = jobs[j].promise]_vars

\* a command could not be spawned: 'error' rejected the promise, and the
\* 'close' that followed left the rejection as it was
C24_Witness ==
    /\ lastOp.op = "job-close"
    /\ jobs[lastOp.pid].errored
    /\ jobs[lastOp.pid].code = SpawnFailedCode
    /\ jobs[lastOp.pid].promise = Rejected(SpawnErrorMessage)

\* C33: between handlers the process handle is set exactly when the active
\* name is set: scriptProcess is null if and only if activeServerDir is null.
C33_HandleIffActiveName == (scriptProcess = NoProc) <=> (activeServerDir = NullDir)

\* the deferred start of a restart has set both again, after an exit had
\* cleared both
C33_Witness ==
    /\ lastOp.op = "start"
    /\ scriptProcess = 2
    /\ activeServerDir \in ServerNames
    /\ exitRuns[1] = 1

\* C34: a stop callback is pending only while a process is held, and it is
\* the restart of the instance that process runs; so whenever the session is
\* idle no callback is pending, and none is carried over to a later process.
C34_CallbackOnlyWhileActive ==
    /\ Idle => onStopCallback = NoCallback
    /\ onStopCallback # NoCallback =>
          /\ scriptProcess \in DOMAIN procs
          /\ onStopCallback = RestartCallback(procs[scriptProcess].dir)

\* the exit of a process with a queued restart has invoked the callback and
\* left the session idle with no callback pending
C34_Witness ==
    /\ lastOp.op = "close"
    /\ Idle
    /\ onStopCallback = NoCallback
    /\ \E i \in DOMAIN timers : timers[i].kind = "start"

\* C35: a chunk is broadcast as output only for the process the session
\* holds, which is the one started last, and only before the stopped event of
\* that process: after the stopped event of a process no output of it follows,
\* and output after a started event is output of the process just started.
C35_OutputBeforeStopped ==
    lastOp.op \in Streams =>
        /\ lastOp.pid = scriptProcess
        /\ lastOp.pid = spawned
        /\ exitRuns[lastOp.pid] = 0
        /\ \A q \in 1..MaxProcs : q # lastOp.pid /\ q <= spawned => q \notin Active

\* the second process prints a chunk after the first has exited and its
\* stopped event was broadcast
C35_Witness ==
    /\ lastOp.op \in Streams
    /\ lastOp.pid = 2
    /\ exitRuns[1] = 1
    /\ Len(emitted) = 1
    /\ emitted[1].ev = "terminal-output"

\* C36: the page of an observer that is connected and has been sent the
\* snapshot of its connection shows the session's active instance: its
\* activeServer, as the handlers of existing-servers, script-started and
\* script-stopped have set it, equals activeServerDir after every step.
Loading(o) == \E id \in DOMAIN tasks : tasks[id].kind = "refresh" /\ tasks[id].o = o

C36_ObserverShowsActive ==
    \A o \in Observers :
        (hostUp /\ activeServer[o] # NoPage /\ ~Loading(o)) =>
            activeServer[o] = activeServerDir

\* a page that was loaded while an instance ran has been told so by its
\* snapshot, has seen that process stop, and now sees the restart start it again
C36_Witness ==
    /\ lastOp.op = "start"
    /\ spawned = 2
    /\ \E o \in Observers :
          /\ activeServer[o] = activeServerDir
          /\ activeServerDir \in ServerNames
          /\ ~Loading(o)

\* C31: a cleanup sweep kills no process of a session that was started after
\* the exit that launched the sweep; in particular not the process a restart
\* starts after that exit.
C31_SweepSparesLaterSession ==
    \A v \in swept : v.kind = "session" => v.id <= v.owner

\* C32: a cleanup sweep kills no helper of an installation: the java of an
\* installer command that runs while the sweep runs is left alone.
C32_SweepSparesInstaller ==
    \A v \in swept : v.kind # "job"

\* C37: a file operation that the path check accepts acts inside the
\* directory of the named instance: the resolved path the check looks at, and
\* the path the operation then works on, are that directory or lie below it,
\* segment by segment; never a sibling directory, never a parent.
Inside(path, dir) == Len(dir) <= Len(path) /\ SubSeq(path, 1, Len(dir)) = dir

C37_AcceptedStaysInside ==
    (call.fn = "isValidPath" /\ call.done /\ call.result.accepted) =>
        /\ Inside(pathResolve(call.result.serverPath, call.args[2]), call.result.serverPath)
        /\ Inside(call.result.target, call.result.serverPath)

\* C38: getJdkPackage names the Java of the Minecraft version the name
\* denotes: "1.y.z" (with or without "-build") and the NeoForge name "y.z.b"
\* both denote Minecraft 1.y.z; Java 21 from 1.20.5 on, Java 17 from 1.17 to
\* 1.20.4, Java 8 below 1.17; a name with a part that is no number gets Java 17.
Unparsable(parts) == \E i \in DOMAIN parts : parts[i] = NaN
Classic(parts) == ~Unparsable(parts) /\ Len(parts) \in {2, 3} /\ parts[1] = 1
NeoForge(parts) == ~Unparsable(parts) /\ Len(parts) = 3 /\ parts[1] >= 20   \* the first is 20.2
RequiredJava(minor, patch) ==
    IF minor > 20 \/ (minor = 20 /\ patch >= 5) THEN "pkgs.jdk21_headless"
    ELSE IF minor >= 17 THEN "pkgs.jdk17_headless"
    ELSE "pkgs.jdk8_headless"

C38_JavaForMinecraftVersion ==
    (call.fn = "getJdkPackage" /\ call.done /\ ~call.args[2]) =>
        LET parts == call.args[1].parts IN
        /\ Unparsable(parts) => call.result = "pkgs.jdk17_headless"
        /\ Classic(parts) =>
              call.result = RequiredJava(parts[2], IF Len(parts) = 3 THEN parts[3] ELSE 0)
        /\ NeoForge(parts) => call.result = RequiredJava(parts[1], parts[2])

\* C39: for an object whose keys and values hold no line break and no
\* whitespace at either end, and whose keys are not empty, hold no "=" and do
\* not begin with "#", reading what was saved gives the object back: the same
\* keys with the same values.
Plain(text) ==
    /\ \A i \in DOMAIN text : text[i] \notin {"\n", "\r"}
    /\ text # <<>> => (text[1] \notin Whitespace /\ text[Len(text)] \notin Whitespace)

RoundTrippable(properties) ==
    \A i \in DOMAIN properties :
        LET key == properties[i].key IN
        /\ Plain(key) /\ Plain(properties[i].value)
        /\ key # <<>>
        /\ \A k \in DOMAIN key : key[k] # "="
        /\ key[1] # "#"

C39_SaveThenReadIsIdentity ==
    (call.fn = "properties" /\ call.done /\ RoundTrippable(call.args[1])) =>
        LET m == call.args[1] IN
        /\ DOMAIN call.result = {m[i].key : i \in DOMAIN m}
        /\ \A i \in DOMAIN m : call.result[m[i].key] = m[i].value
====
